---- MODULE Spec2Model ----
(***************************************************************************)
(* Model of resume-composer: the tag resolver, the template substitution   *)
(* engine, the batch driver, the country classifier, the output path       *)
(* builder, the LaTeX compilation step and the single-shot tool.           *)
(*                                                                         *)
(* A Python str is a sequence of one-character strings.  A JSON value is   *)
(* a record [t, s, n, items, m] whose field t names its Python type.       *)
(***************************************************************************)
EXTENDS Integers, Sequences, FiniteSets, TLC

VARIABLES
    config,             \* ResumeSubstituter.config (the parsed JSON object)
    tags,               \* the tag list handed to the resolver / substitute_file
    placeholder_id,     \* argument of _get_value_for_placeholder
    result,             \* outcome of the last _get_value_for_placeholder call
    input_status,       \* the input file: "ok", "missing", "not_utf8", "unreadable"
    output_writable,    \* whether the output path can be opened for writing
    template,           \* text of the input file on disk
    content,            \* local `content` of substitute_file
    todo,               \* identifiers of set(placeholders) not yet iterated
    substitution_count, \* local `substitution_count` of substitute_file
    resolved,           \* the "<id> -> value (n occurrences)" log lines
    output_file,        \* content of the output file on disk, or NoFile
    countries,          \* generate_profiles.main: the countries read
    profiles,           \* generate_profiles.main: the tag profiles read
    unit,               \* <<i, j>>: position of the two nested loops of main
    attempts,           \* the generate_resume calls made so far, with outcome
    success_count,      \* local `success_count` of main
    main_args,          \* generate_profiles.main: args.dry_run, args.compile
    profiles_file,      \* the profiles file: its status and its raw lines
    args,               \* the argparse.Namespace of process_resume_substitution
    config_status,      \* the config file: "ok", "missing", "invalid_json"
    country,            \* args.country / the country handed to a function
    country_tag,        \* value returned by map_country_to_tag
    base_output_file,   \* argument of create_folder_structure (a path)
    fs_dirs,            \* the directories that exist on disk (paths)
    fs_files,           \* the regular files that exist on disk (paths)
    output_path,        \* the path computed for / returned as the output file
    calls,              \* create_folder_structure calls made so far
    compile_calls,      \* the arguments of the compile_latex_to_pdf calls made
    run_outcome,        \* how subprocess.run of pdflatex ended, or "none"
    pc                  \* position of the running call

resolverVars == <<placeholder_id, result>>

substVars == <<input_status, output_writable, template, content, todo,
               substitution_count, resolved, output_file>>

\* the files as the environment provides them; no action changes them
envVars == <<input_status, output_writable, template>>

batchVars == <<countries, profiles, unit, attempts, success_count, main_args,
               profiles_file>>

toolVars == <<args, config_status, country, country_tag, base_output_file,
              fs_dirs, fs_files, output_path, calls, compile_calls,
              run_outcome>>

vars == <<config, tags, resolverVars, substVars, batchVars, toolVars, pc>>

----------------------------------------------------------------------------
(* Bounds *)

MaxTags == 2

----------------------------------------------------------------------------
(* Python str *)

Default == <<"d", "e", "f", "a", "u", "l", "t">>

Letters == {"a", "b", "c", "d", "e", "f", "g", "h", "i", "j", "k", "l", "m",
            "n", "o", "p", "q", "r", "s", "t", "u", "v", "w", "x", "y", "z",
            "A", "B", "C", "D", "E", "F", "G", "H", "I", "J", "K", "L", "M",
            "N", "O", "P", "Q", "R", "S", "T", "U", "V", "W", "X", "Y", "Z"}

Digits == {"0", "1", "2", "3", "4", "5", "6", "7", "8", "9"}

DigitChar == <<"0", "1", "2", "3", "4", "5", "6", "7", "8", "9">>

\* [a-zA-Z0-9_]
WordChar(c) == c \in Letters \cup Digits \cup {"_"}

\* f"<{placeholder_id}>"
Marker(id) == <<"<">> \o id \o <<">">>

\* pattern occurs in text at index i (1-based)
OccursAt(text, pattern, i) ==
    /\ i >= 1
    /\ i + Len(pattern) - 1 <= Len(text)
    /\ \A k \in 1..Len(pattern) : text[i + k - 1] = pattern[k]

\* Python `pattern in text` for two str
IsSubstring(pattern, text) ==
    \E i \in 1..(Len(text) + 1) : OccursAt(text, pattern, i)

RECURSIVE IntStr(_)
\* str(n) for a non-negative int
IntStr(n) ==
    IF n < 10 THEN <<DigitChar[n + 1]>>
    ELSE IntStr(n \div 10) \o <<DigitChar[(n % 10) + 1]>>

----------------------------------------------------------------------------
(* JSON values as json.load returns them *)

EmptyMap == [k \in {} |-> 0]

JStr(s)      == [t |-> "str",  s |-> s,    n |-> 0, items |-> <<>>, m |-> EmptyMap]
JNull        == [t |-> "null", s |-> <<>>, n |-> 0, items |-> <<>>, m |-> EmptyMap]
JNum(n)      == [t |-> "int",  s |-> <<>>, n |-> n, items |-> <<>>, m |-> EmptyMap]
JBool(b)     == [t |-> "bool", s |-> <<>>, n |-> IF b THEN 1 ELSE 0,
                 items |-> <<>>, m |-> EmptyMap]
JList(items) == [t |-> "list", s |-> <<>>, n |-> 0, items |-> items, m |-> EmptyMap]
JMap(m)      == [t |-> "dict", s |-> <<>>, n |-> 0, items |-> <<>>, m |-> m]

\* a one-key dict {k: v}
OneKey(k, v) == [x \in {k} |-> v]

RECURSIVE PyRepr(_)
RECURSIVE JoinRepr(_)
\* repr(value): what str() shows for the elements of a list or dict
PyRepr(v) ==
    CASE v.t = "str"  -> <<"'">> \o v.s \o <<"'">>
      [] v.t = "null" -> <<"N", "o", "n", "e">>
      [] v.t = "int"  -> IntStr(v.n)
      [] v.t = "bool" -> IF v.n = 1 THEN <<"T", "r", "u", "e">>
                         ELSE <<"F", "a", "l", "s", "e">>
      [] v.t = "list" -> <<"[">> \o JoinRepr(v.items) \o <<"]">>
      [] v.t = "dict" ->
            IF DOMAIN v.m = {} THEN <<"{", "}">>
            ELSE LET k == CHOOSE x \in DOMAIN v.m : TRUE
                 IN <<"{", "'">> \o k \o <<"'", ":", " ">> \o PyRepr(v.m[k]) \o <<"}">>

\* ", ".join(repr(x) for x in items)
JoinRepr(items) ==
    IF items = <<>> THEN <<>>
    ELSE IF Len(items) = 1 THEN PyRepr(items[1])
    ELSE PyRepr(items[1]) \o <<",", " ">> \o JoinRepr(Tail(items))

\* str(value)
PyStr(v) == IF v.t = "str" THEN v.s ELSE PyRepr(v)

----------------------------------------------------------------------------
(* ResumeSubstituter._get_value_for_placeholder *)

Ok(s)     == [kind |-> "ok", val |-> s]
TypeError == [kind |-> "TypeError", val |-> <<>>]
NoResult  == [kind |-> "none", val |-> <<>>]

\* Python `key in placeholder_config`: "yes", "no" or "TypeError"
Contains(placeholder_config, key) ==
    CASE placeholder_config.t = "dict" ->
            IF key \in DOMAIN placeholder_config.m THEN "yes" ELSE "no"
      [] placeholder_config.t = "str" ->
            IF IsSubstring(key, placeholder_config.s) THEN "yes" ELSE "no"
      [] placeholder_config.t = "list" ->
            IF \E i \in 1..Len(placeholder_config.items) :
                  placeholder_config.items[i] = JStr(key)
            THEN "yes" ELSE "no"
      [] OTHER -> "TypeError"

\* Python `placeholder_config[key]` once `key in placeholder_config` held,
\* followed by the isinstance(value, str) / str(value) conversion
Lookup(placeholder_config, key) ==
    IF placeholder_config.t = "dict"
    THEN Ok(PyStr(placeholder_config.m[key]))
    ELSE TypeError

\* FallBack with an empty string instead of the literal marker
FallBackEmpty(placeholder_config, id) ==
    LET c == Contains(placeholder_config, Default)
    IN CASE c = "TypeError" -> TypeError
         [] c = "yes"       -> Lookup(placeholder_config, Default)
         [] c = "no"        -> Ok(<<>>)

\* the value stored under "default", or the literal marker
FallBack(placeholder_config, id) ==
    LET c == Contains(placeholder_config, Default)
    IN CASE c = "TypeError" -> TypeError
         [] c = "yes"       -> Lookup(placeholder_config, Default)
         [] c = "no"        -> Ok(Marker(id))

RECURSIVE ScanTagsLastWins(_, _, _)
\* ScanTags iterating the tag list from its end
ScanTagsLastWins(placeholder_config, id, ts) ==
    IF ts = <<>> THEN FallBack(placeholder_config, id)
    ELSE LET last == ts[Len(ts)]
             c    == Contains(placeholder_config, last)
         IN CASE c = "TypeError" -> TypeError
              [] c = "yes"       -> Lookup(placeholder_config, last)
              [] c = "no"        ->
                   ScanTagsLastWins(placeholder_config, id, SubSeq(ts, 1, Len(ts) - 1))

RECURSIVE ScanTags(_, _, _)
\* for tag in tags: if tag in placeholder_config: return ...
ScanTags(placeholder_config, id, ts) ==
    IF ts = <<>> THEN FallBack(placeholder_config, id)
    ELSE LET c == Contains(placeholder_config, Head(ts))
         IN CASE c = "TypeError" -> TypeError
              [] c = "yes"       -> Lookup(placeholder_config, Head(ts))
              [] c = "no"        -> ScanTags(placeholder_config, id, Tail(ts))

get_value_for_placeholder(cfg, id, ts) ==
    IF id \notin DOMAIN cfg THEN Ok(Marker(id))
    ELSE IF cfg[id].t = "null" THEN Ok(Marker(id))
    ELSE ScanTags(cfg[id], id, ts)

----------------------------------------------------------------------------
(* Inputs of the resolver *)

TagUniverse == {<<"a">>, <<"A">>, <<"b">>, <<"c">>, Default}

KeyUniverse == {<<"a">>, <<"A">>, <<"b">>, Default}

RECURSIVE SeqsUpTo(_, _)
\* all sequences over S of length at most n
SeqsUpTo(S, n) ==
    IF n = 0 THEN {<<>>}
    ELSE LET shorter == SeqsUpTo(S, n - 1)
         IN shorter \cup {Append(q, x) : q \in shorter, x \in S}

TagLists == SeqsUpTo(TagUniverse, MaxTags)

\* the string stored under key k in the well-formed configurations
StrFor(k) == JStr(<<"v">> \o k)

NonStrings == {JNull, JNum(42), JBool(TRUE), JBool(FALSE),
               JList(<<JNum(1), JStr(<<"a">>)>>),
               JMap(OneKey(<<"a">>, JStr(<<"x">>))), JStr(<<>>)}

\* mappings over KeyUniverse with at most one value that is not StrFor(key)
Mappings ==
    UNION {
        {[k \in K |-> StrFor(k)]} \cup
        {[k \in K |-> IF k = odd THEN v ELSE StrFor(k)] : odd \in K, v \in NonStrings}
        : K \in SUBSET KeyUniverse }

\* entries that are not a mapping
NonMappings == {JNull, JStr(<<"a", "b">>), JStr(Default), JStr(<<>>), JNum(5), JNum(0),
                JBool(TRUE), JBool(FALSE), JList(<<>>), JList(<<JStr(<<"a">>)>>),
                JList(<<JStr(Default)>>), JList(<<JNum(1)>>)}

Entries == {JMap(m) : m \in Mappings} \cup NonMappings

IdUniverse == {<<"1">>, <<"2">>}

NoFile == [exists |-> FALSE, text |-> <<>>]

\* values of the variables a specification does not use
SubstIdle ==
    /\ input_status = "ok"
    /\ output_writable = TRUE
    /\ template = <<>>
    /\ content = <<>>
    /\ todo = {}
    /\ substitution_count = 0
    /\ resolved = {}
    /\ output_file = NoFile

NoMainArgs == [dry_run |-> FALSE, compile |-> FALSE]

NoProfilesFile == [status |-> "missing", lines |-> <<>>]

BatchIdle ==
    /\ countries = <<>>
    /\ profiles = <<>>
    /\ unit = <<1, 1>>
    /\ attempts = <<>>
    /\ success_count = 0
    /\ main_args = NoMainArgs
    /\ profiles_file = NoProfilesFile

NoArgs == [tags |-> <<>>, output |-> <<>>, input |-> <<>>, list_tags |-> FALSE,
           use_folders |-> FALSE, no_folders |-> FALSE, compile |-> FALSE]

ToolIdle ==
    /\ args = NoArgs
    /\ config_status = "ok"
    /\ country = <<>>
    /\ country_tag = <<>>
    /\ base_output_file = <<>>
    /\ fs_dirs = {}
    /\ fs_files = {}
    /\ output_path = <<>>
    /\ calls = 0
    /\ compile_calls = <<>>
    /\ run_outcome = "none"

----------------------------------------------------------------------------
(* ResumeSubstituter.substitute_file *)

RECURSIVE RunEnd(_, _)
\* first index >= j of text that does not hold a [a-zA-Z0-9_] character
RunEnd(text, j) ==
    IF j > Len(text) THEN j
    ELSE IF WordChar(text[j]) THEN RunEnd(text, j + 1)
    ELSE j

\* MatchEnd for the pattern <([a-zA-Z0-9_]*)>, which accepts an empty identifier
MatchEndAllowEmpty(text, i) ==
    IF text[i] # "<" THEN 0
    ELSE LET j == RunEnd(text, i + 1)
         IN IF j <= Len(text) /\ text[j] = ">" THEN j ELSE 0

\* MatchEnd for the pattern <([a-zA-Z_][a-zA-Z0-9_]*)>, no leading digit
MatchEndLetterFirst(text, i) ==
    IF text[i] # "<" THEN 0
    ELSE LET j == RunEnd(text, i + 1)
         IN IF j > i + 1 /\ j <= Len(text) /\ text[j] = ">" /\ text[i + 1] \notin Digits
            THEN j ELSE 0

\* index of the ">" closing a match of <([a-zA-Z0-9_][a-zA-Z0-9_]*)> that
\* starts at index i, or 0 when the regular expression does not match there
MatchEnd(text, i) ==
    IF text[i] # "<" THEN 0
    ELSE LET j == RunEnd(text, i + 1)
         IN IF j > i + 1 /\ j <= Len(text) /\ text[j] = ">" THEN j ELSE 0

RECURSIVE FindAllFrom(_, _)
FindAllFrom(text, i) ==
    IF i > Len(text) THEN <<>>
    ELSE LET e == MatchEnd(text, i)
         IN IF e > 0 THEN <<SubSeq(text, i + 1, e - 1)>> \o FindAllFrom(text, e + 1)
            ELSE FindAllFrom(text, i + 1)

\* re.findall(r"<([a-zA-Z0-9_][a-zA-Z0-9_]*)>", content)
FindAll(text) == FindAllFrom(text, 1)

\* set(placeholders)
SetOf(seq) == {seq[i] : i \in 1..Len(seq)}

RECURSIVE CountFrom(_, _, _)
CountFrom(text, pattern, i) ==
    IF i + Len(pattern) - 1 > Len(text) THEN 0
    ELSE IF OccursAt(text, pattern, i)
         THEN 1 + CountFrom(text, pattern, i + Len(pattern))
         ELSE CountFrom(text, pattern, i + 1)

\* len(re.findall(re.escape(pattern), content))
CountOccurrences(text, pattern) == CountFrom(text, pattern, 1)

RECURSIVE ReplaceFrom(_, _, _, _)
ReplaceFrom(text, pattern, value, i) ==
    IF i > Len(text) THEN <<>>
    ELSE IF OccursAt(text, pattern, i)
         THEN value \o ReplaceFrom(text, pattern, value, i + Len(pattern))
         ELSE <<text[i]>> \o ReplaceFrom(text, pattern, value, i + 1)

\* content.replace(pattern, value, 1): only the first occurrence
ReplaceFirstOnly(text, pattern, value) ==
    IF \E i \in 1..Len(text) : OccursAt(text, pattern, i)
    THEN LET i == CHOOSE i \in 1..Len(text) :
                     /\ OccursAt(text, pattern, i)
                     /\ \A k \in 1..(i - 1) : ~OccursAt(text, pattern, k)
         IN SubSeq(text, 1, i - 1) \o value \o SubSeq(text, i + Len(pattern), Len(text))
    ELSE text

\* content.replace(pattern, value), for a non-empty pattern
Replace(text, pattern, value) == ReplaceFrom(text, pattern, value, 1)

File(text) == [exists |-> TRUE, text |-> text]

\* open + read + findall, and the whole branch taken when nothing is found
SubstRead ==
    /\ pc = "start"
    /\ CASE input_status \in {"missing", "not_utf8"} ->
              \* FileNotFoundError, UnicodeDecodeError: sys.exit(1)
              /\ pc' = "SystemExit"
              /\ UNCHANGED <<content, todo, output_file>>
         [] input_status = "unreadable" ->
              \* any other OSError of open() is not handled
              /\ pc' = "OSError"
              /\ UNCHANGED <<content, todo, output_file>>
         [] input_status = "ok" ->
              /\ content' = template
              /\ IF FindAll(template) = <<>>
                 THEN /\ todo' = {}
                      /\ IF output_writable
                         THEN /\ output_file' = File(template)
                              /\ pc' = "done"
                         ELSE /\ output_file' = output_file
                              /\ pc' = "OSError"
                 ELSE /\ todo' = SetOf(FindAll(template))
                      /\ pc' = "loop"
                      /\ output_file' = output_file
    /\ UNCHANGED <<config, tags, resolverVars, envVars,
                   substitution_count, resolved, batchVars, toolVars>>

\* one iteration of `for placeholder_id in set(placeholders)`
SubstStep ==
    /\ pc = "loop"
    /\ \E id \in todo :
         LET r           == get_value_for_placeholder(config, id, tags)
             pattern     == Marker(id)
             occurrences == CountOccurrences(content, pattern)
         IN /\ placeholder_id' = id
            /\ result' = r
            /\ IF r.kind = "ok"
               THEN /\ content' = Replace(content, pattern, r.val)
                    /\ substitution_count' = substitution_count + occurrences
                    /\ resolved' = resolved \cup
                          {[id |-> id, value |-> r.val, occurrences |-> occurrences]}
                    /\ todo' = todo \ {id}
                    /\ pc' = "loop"
               ELSE /\ pc' = r.kind
                    /\ UNCHANGED <<content, substitution_count, resolved, todo>>
    /\ UNCHANGED <<config, tags, envVars, output_file, batchVars, toolVars>>

\* the write of the result once the loop is over
SubstWrite ==
    /\ pc = "loop"
    /\ todo = {}
    /\ IF output_writable
       THEN /\ output_file' = File(content)
            /\ pc' = "done"
       ELSE \* OSError: sys.exit(1)
            /\ output_file' = output_file
            /\ pc' = "SystemExit"
    /\ UNCHANGED <<config, tags, resolverVars, envVars, content, todo,
                   substitution_count, resolved, batchVars, toolVars>>

----------------------------------------------------------------------------
(* Inputs of substitute_file *)

MaxTokens == 3

Tokens == {<<"<", "1", ">">>, <<"<", "a", ">">>, <<"<">>, <<">">>, <<"1">>, <<"-">>}

RECURSIVE Concat(_)
Concat(seqs) == IF seqs = <<>> THEN <<>> ELSE Head(seqs) \o Concat(Tail(seqs))

Templates == {Concat(q) : q \in SeqsUpTo(Tokens, MaxTokens)}

SubstIds == {<<"1">>, <<"a">>}

Other(id) == IF id = <<"1">> THEN <<"a">> ELSE <<"1">>

\* entries an identifier can have; "absent" stands for no entry at all
SubstEntries(id) ==
    {JMap((Default :> JStr(<<"x">>)) @@ (<<"b">> :> JStr(<<"y", "y">>))),
     JMap(OneKey(Default, JStr(Marker(Other(id))))),
     JMap(OneKey(<<"b">>, JStr(<<>>))),
     JNum(5)}

\* configurations with an entry for some of the identifiers
SubstConfigs ==
    UNION {{cfg \in [K -> UNION {SubstEntries(id) : id \in SubstIds}] :
               \A id \in K : cfg[id] \in SubstEntries(id)} : K \in SUBSET SubstIds}

SubstTagLists == {<<>>, <<<<"b">>>>}

InitSubst ==
    /\ config \in SubstConfigs
    /\ tags \in SubstTagLists
    /\ input_status \in {"ok", "missing", "not_utf8", "unreadable"}
    /\ output_writable \in BOOLEAN
    /\ template \in IF input_status = "ok" THEN Templates ELSE {<<>>}
    /\ placeholder_id = <<>>
    /\ result = NoResult
    /\ content = <<>>
    /\ todo = {}
    /\ substitution_count = 0
    /\ resolved = {}
    /\ output_file = NoFile
    /\ BatchIdle
    /\ ToolIdle
    /\ pc = "start"

NextSubst == SubstRead \/ SubstStep \/ SubstWrite

SpecSubst == InitSubst /\ [][NextSubst]_vars

----------------------------------------------------------------------------
(* Specification of the resolver: inputs drawn, then one call *)

InitResolve ==
    /\ config \in {OneKey(<<"1">>, e) : e \in Entries}
    /\ tags \in TagLists
    /\ placeholder_id \in IdUniverse
    /\ result = NoResult
    /\ SubstIdle
    /\ BatchIdle
    /\ ToolIdle
    /\ pc = "resolve"

Resolve ==
    /\ pc = "resolve"
    /\ result' = get_value_for_placeholder(config, placeholder_id, tags)
    /\ pc' = "resolved"
    /\ UNCHANGED <<config, tags, placeholder_id, substVars, batchVars,
                   toolVars>>

NextResolve == Resolve

SpecResolve == InitResolve /\ [][NextResolve]_vars

----------------------------------------------------------------------------
(* generate_profiles: generate_resume and the loops of main *)

MaxCountries == 2

MaxProfiles == 2

\* process_resume_substitution as generate_resume calls it (list_tags False):
\* the configuration is loaded first, then substitute_file runs
process_resume_substitution(load, subst) ==
    IF load = "SystemExit" THEN "SystemExit" ELSE subst

\* the classes `except Exception` catches; SystemExit derives from BaseException
IsException(end) == end \in {"OSError", "TypeError"}

\* try: process_resume_substitution(args) / except Exception: log
generate_resume(end) ==
    IF end = "done" THEN "success"
    ELSE IF IsException(end) THEN "caught"
    ELSE end

----------------------------------------------------------------------------
(* Properties of _get_value_for_placeholder, checked under SpecResolve *)

\* the entry of the identifier being resolved is a mapping
EntryIsMapping ==
    /\ placeholder_id \in DOMAIN config
    /\ config[placeholder_id].t = "dict"

\* indices of the tags that are, character for character, a key of mapping m
Hits(m, ts) == {i \in 1..Len(ts) : ts[i] \in DOMAIN m}

\* C1: for an entry that is a mapping, the result is the value stored under
\* the first tag of the list that is exactly a key of the entry, whatever
\* later tags match and whatever "default" holds; a tag differing from a key
\* in letter case is no key.
C1_FirstMatchingTagWins ==
    (pc = "resolved" /\ EntryIsMapping) =>
        LET m    == config[placeholder_id].m
            hits == Hits(m, tags)
        IN hits # {} =>
             LET first == CHOOSE i \in hits : \A k \in hits : i <= k
             IN result = Ok(PyStr(m[tags[first]]))

C1_Witness ==
    /\ pc = "resolved"
    /\ EntryIsMapping
    /\ tags = <<<<"A">>, <<"a">>>>
    /\ {<<"a">>, <<"A">>, Default} \subseteq DOMAIN config[placeholder_id].m
    /\ result = Ok(<<"v", "A">>)

\* C3: an identifier without entry resolves to its marker <id>; for a mapping
\* none of whose keys is a tag of the list the result is the value under
\* "default" when that key exists and the marker <id> otherwise.
C3_DefaultThenMarker ==
    pc = "resolved" =>
        /\ placeholder_id \notin DOMAIN config => result = Ok(Marker(placeholder_id))
        /\ (EntryIsMapping /\ Hits(config[placeholder_id].m, tags) = {}) =>
             LET m == config[placeholder_id].m
             IN result = IF Default \in DOMAIN m THEN Ok(PyStr(m[Default]))
                         ELSE Ok(Marker(placeholder_id))

C3_Witness ==
    /\ pc = "resolved"
    /\ EntryIsMapping
    /\ DOMAIN config[placeholder_id].m = {<<"a">>, <<"b">>}
    /\ tags = <<<<"c">>, <<"A">>>>
    /\ result = Ok(<<"<", "1", ">">>)

\* C4: for an identifier present in the configuration the call returns a
\* string and never raises, whatever JSON value is stored.
C4_ReturnsStringNeverRaises ==
    (pc = "resolved" /\ placeholder_id \in DOMAIN config) => result.kind = "ok"

\* C5: an entry that is not a mapping resolves to the marker <id> for every
\* tag list, without raising.
C5_NonMappingGivesMarker ==
    (pc = "resolved" /\ placeholder_id \in DOMAIN config
                     /\ config[placeholder_id].t # "dict")
        => result = Ok(Marker(placeholder_id))

----------------------------------------------------------------------------
(* Properties of generate_profiles.main, checked under SpecBatch *)

\* C2: once the loop of main has started, it is left only after every
\* (country, profile) combination was attempted, whatever failed in a unit.
C2_FailureNeverStopsLoop ==
    (pc # "generating" /\ attempts # <<>>) =>
        Len(attempts) = Len(countries) * Len(profiles)

----------------------------------------------------------------------------
(* Properties of substitute_file, checked under SpecSubst *)

\* text[i..j] is a placeholder: "<", a non-empty run of letters, digits and
\* underscores, ">"
IsPlaceholderSpan(text, i, j) ==
    /\ i + 1 < j
    /\ text[i] = "<"
    /\ text[j] = ">"
    /\ \A k \in (i + 1)..(j - 1) : WordChar(text[k])

PlaceholderSpans(text) ==
    {sp \in (1..Len(text)) \X (1..Len(text)) : IsPlaceholderSpan(text, sp[1], sp[2])}

\* the identifiers of the placeholders of text
GrammarIds(text) == {SubSeq(text, sp[1] + 1, sp[2] - 1) : sp \in PlaceholderSpans(text)}

\* text[i..j] is "<", characters other than "<" and ">", then ">", and is no
\* placeholder: the body is empty or holds a character outside the grammar
IsMalformedSpan(text, i, j) ==
    /\ i < j
    /\ text[i] = "<"
    /\ text[j] = ">"
    /\ \A k \in (i + 1)..(j - 1) : text[k] \notin {"<", ">"}
    /\ ~IsPlaceholderSpan(text, i, j)

MalformedSpans(text) ==
    {sp \in (1..Len(text)) \X (1..Len(text)) : IsMalformedSpan(text, sp[1], sp[2])}

\* number of indices of text at which pattern occurs
NumPositions(text, pattern) ==
    Cardinality({i \in 1..Len(text) : OccursAt(text, pattern, i)})

\* the identifiers the loop has processed so far
Processed == {e.id : e \in resolved}

\* the value the resolver gives for id in the current configuration
ValueOf(id) == get_value_for_placeholder(config, id, tags).val

RECURSIVE SinglePassFrom(_, _)
\* text with every placeholder span replaced by the value of its identifier,
\* in one pass over text: nothing that was inserted is looked at again
SinglePassFrom(text, i) ==
    IF i > Len(text) THEN <<>>
    ELSE IF \E j \in 1..Len(text) : IsPlaceholderSpan(text, i, j)
         THEN LET j == CHOOSE j \in 1..Len(text) : IsPlaceholderSpan(text, i, j)
              IN ValueOf(SubSeq(text, i + 1, j - 1)) \o SinglePassFrom(text, j + 1)
         ELSE <<text[i]>> \o SinglePassFrom(text, i + 1)

SinglePass(text) == SinglePassFrom(text, 1)

\* id has no entry, or a mapping with no key among the tags and no "default"
IsGap(id) ==
    \/ id \notin DOMAIN config
    \/ /\ config[id].t = "dict"
       /\ Hits(config[id].m, tags) = {}
       /\ Default \notin DOMAIN config[id].m

\* the call is over
SubstOver == pc \in {"done", "SystemExit", "OSError", "TypeError"}

\* C6: the text written is the template with each placeholder span of the
\* template replaced by its resolved value and every other character kept;
\* inserted text is not substituted again.
C6_OutputIsSinglePass ==
    pc = "done" => output_file = File(SinglePass(template))

\* after is before with every occurrence of pattern replaced by value and
\* every character outside the occurrences kept in place
ReplacedUniformly(before, after, pattern, value) ==
    LET P        == {i \in 1..Len(before) : OccursAt(before, pattern, i)}
        d        == Len(value) - Len(pattern)
        shift(q) == Cardinality({p \in P : p < q}) * d
        inside(q) == \E p \in P : p <= q /\ q < p + Len(pattern)
    IN /\ Len(after) = Len(before) + Cardinality(P) * d
       /\ \A q \in 1..Len(before) : ~inside(q) => after[q + shift(q)] = before[q]
       /\ \A p \in P : OccursAt(after, value, p + shift(p))

\* C7: the iteration that processes an identifier finds all the occurrences
\* of <id> the template has and replaces every occurrence of <id> by the one
\* resolved value of id, leaving none in place.
C7_AllOccurrencesReplaced ==
    [][(pc = "loop" /\ todo' # todo) =>
          LET id == placeholder_id'
              e  == CHOOSE x \in resolved' : x.id = id
          IN /\ todo' = todo \ {id}
             /\ resolved' \ resolved = {e}
             /\ e.value = ValueOf(id)
             /\ e.occurrences >= NumPositions(template, Marker(id))
             /\ e.occurrences = NumPositions(content, Marker(id))
             /\ NumPositions(template, Marker(id)) >= 1
             /\ ReplacedUniformly(content, content', Marker(id), e.value)]_vars

C7_Witness ==
    /\ pc = "done"
    /\ template = <<"<", "1", ">", "-", "<", "1", ">">>
    /\ resolved = {[id |-> <<"1">>, value |-> <<"y", "y">>, occurrences |-> 2]}
    /\ output_file = File(<<"y", "y", "-", "y", "y">>)

\* C8: with readable input and writable output, a template holding a
\* placeholder without entry, or without matching tag and "default", still
\* ends with the output written: that placeholder left as <id>, the others
\* resolved.
C8_GapIsNotFatal ==
    (/\ SubstOver
     /\ input_status = "ok"
     /\ output_writable
     /\ \E id \in GrammarIds(template) : IsGap(id))
        => /\ pc = "done"
           /\ output_file = File(SinglePass(template))

\* C9: a readable template without placeholder is copied to the output as it
\* is, with zero substitutions and without any resolution.
C9_NoPlaceholderCopies ==
    (/\ pc # "start"
     /\ input_status = "ok"
     /\ GrammarIds(template) = {})
        => /\ pc = IF output_writable THEN "done" ELSE "OSError"
           /\ output_file = IF output_writable THEN File(template) ELSE NoFile
           /\ content = template
           /\ substitution_count = 0
           /\ resolved = {}
           /\ result = NoResult

C9_Witness ==
    /\ pc = "done"
    /\ template = <<"<", ">", "1">>
    /\ output_file = File(template)
    /\ substitution_count = 0
    /\ config # EmptyMap
    /\ tags # <<>>

----------------------------------------------------------------------------
(* ResumeSubstituter.map_country_to_tag *)

UpperAlphabet == <<"A", "B", "C", "D", "E", "F", "G", "H", "I", "J", "K", "L",
                   "M", "N", "O", "P", "Q", "R", "S", "T", "U", "V", "W", "X",
                   "Y", "Z">>

LowerAlphabet == <<"a", "b", "c", "d", "e", "f", "g", "h", "i", "j", "k", "l",
                   "m", "n", "o", "p", "q", "r", "s", "t", "u", "v", "w", "x",
                   "y", "z">>

\* str.lower() on one character
LowerChar(c) ==
    IF \E i \in 1..26 : UpperAlphabet[i] = c
    THEN LowerAlphabet[CHOOSE i \in 1..26 : UpperAlphabet[i] = c]
    ELSE c

\* str.lower()
Lower(s) == [i \in 1..Len(s) |-> LowerChar(s[i])]

\* the two-column table direct_mappings: <<alias, tag>>
direct_mappings == {
    <<<<"u", "k">>,
      <<"u", "k">>>>,
    <<<<"u", "n", "i", "t", "e", "d", " ", "k", "i", "n", "g", "d", "o", "m">>,
      <<"u", "k">>>>,
    <<<<"b", "r", "i", "t", "a", "i", "n">>,
      <<"u", "k">>>>,
    <<<<"g", "r", "e", "a", "t", " ", "b", "r", "i", "t", "a", "i", "n">>,
      <<"u", "k">>>>,
    <<<<"e", "n", "g", "l", "a", "n", "d">>,
      <<"u", "k">>>>,
    <<<<"s", "c", "o", "t", "l", "a", "n", "d">>,
      <<"u", "k">>>>,
    <<<<"w", "a", "l", "e", "s">>,
      <<"u", "k">>>>,
    <<<<"n", "o", "r", "t", "h", "e", "r", "n", " ", "i", "r", "e", "l", "a", "n", "d">>,
      <<"u", "k">>>>,
    <<<<"u", "s", "a">>,
      <<"u", "s", "a">>>>,
    <<<<"u", "n", "i", "t", "e", "d", " ", "s", "t", "a", "t", "e", "s">>,
      <<"u", "s", "a">>>>,
    <<<<"u", "s">>,
      <<"u", "s", "a">>>>,
    <<<<"a", "m", "e", "r", "i", "c", "a">>,
      <<"u", "s", "a">>>>,
    <<<<"s", "w", "i", "t", "z", "e", "r", "l", "a", "n", "d">>,
      <<"s", "w", "i", "t", "z", "e", "r", "l", "a", "n", "d">>>>,
    <<<<"s", "p", "a", "i", "n">>,
      <<"s", "p", "a", "i", "n">>>>}

european_countries == {
    <<"g", "e", "r", "m", "a", "n", "y">>,
    <<"f", "r", "a", "n", "c", "e">>,
    <<"i", "t", "a", "l", "y">>,
    <<"n", "e", "t", "h", "e", "r", "l", "a", "n", "d", "s">>,
    <<"b", "e", "l", "g", "i", "u", "m">>,
    <<"a", "u", "s", "t", "r", "i", "a">>,
    <<"d", "e", "n", "m", "a", "r", "k">>,
    <<"s", "w", "e", "d", "e", "n">>,
    <<"n", "o", "r", "w", "a", "y">>,
    <<"f", "i", "n", "l", "a", "n", "d">>,
    <<"p", "o", "r", "t", "u", "g", "a", "l">>,
    <<"g", "r", "e", "e", "c", "e">>,
    <<"p", "o", "l", "a", "n", "d">>,
    <<"c", "z", "e", "c", "h", " ", "r", "e", "p", "u", "b", "l", "i", "c">>,
    <<"h", "u", "n", "g", "a", "r", "y">>,
    <<"s", "l", "o", "v", "e", "n", "i", "a">>,
    <<"s", "l", "o", "v", "a", "k", "i", "a">>,
    <<"e", "s", "t", "o", "n", "i", "a">>,
    <<"l", "a", "t", "v", "i", "a">>,
    <<"l", "i", "t", "h", "u", "a", "n", "i", "a">>,
    <<"l", "u", "x", "e", "m", "b", "o", "u", "r", "g">>,
    <<"m", "a", "l", "t", "a">>,
    <<"c", "y", "p", "r", "u", "s">>,
    <<"i", "r", "e", "l", "a", "n", "d">>,
    <<"r", "o", "m", "a", "n", "i", "a">>,
    <<"b", "u", "l", "g", "a", "r", "i", "a">>,
    <<"c", "r", "o", "a", "t", "i", "a">>}

InAliasTable(s) == \E row \in direct_mappings : row[1] = s

AliasTag(s) == (CHOOSE row \in direct_mappings : row[1] = s)[2]

Europe == <<"e", "u", "r", "o", "p", "e">>

MapCountryCaseSensitive(c) ==
    IF InAliasTable(c) THEN AliasTag(c)
    ELSE IF c \in european_countries THEN Europe
    ELSE Default

map_country_to_tag(c) ==
    LET country_lower == Lower(c)
    IN IF InAliasTable(country_lower) THEN AliasTag(country_lower)
       ELSE IF country_lower \in european_countries THEN Europe
       ELSE Default

\* str.upper() and str.capitalize(), used to spell the inputs
UpperChar(c) ==
    IF \E i \in 1..26 : LowerAlphabet[i] = c
    THEN UpperAlphabet[CHOOSE i \in 1..26 : LowerAlphabet[i] = c]
    ELSE c

Upper(s) == [i \in 1..Len(s) |-> UpperChar(s[i])]

Capitalize(s) == [i \in 1..Len(s) |-> IF i = 1 THEN UpperChar(s[i]) ELSE s[i]]

KnownCountries == {row[1] : row \in direct_mappings} \cup european_countries

\* names that are in neither table: unknown, empty, padded, a tag name
UnknownCountries ==
    {<<"M", "a", "r", "s">>, <<>>, <<"j", "a", "p", "a", "n">>,
     <<"u", "k", " ">>, <<" ", "u", "k">>, <<"u", ".", "k", ".">>,
     Europe, Default, <<"U", "S", "A", "!">>, <<"4", "2">>}

CountryInputs ==
    KnownCountries \cup {Upper(n) : n \in KnownCountries}
        \cup {Capitalize(n) : n \in KnownCountries} \cup UnknownCountries

ResolverIdle ==
    /\ config = EmptyMap
    /\ placeholder_id = <<>>
    /\ result = NoResult

ClassifyIdle ==
    /\ ResolverIdle
    /\ tags = <<>>
    /\ SubstIdle
    /\ BatchIdle

InitClassify ==
    /\ ClassifyIdle
    /\ args = NoArgs
    /\ config_status = "ok"
    /\ country \in CountryInputs
    /\ country_tag = <<>>
    /\ base_output_file = <<>>
    /\ fs_dirs = {}
    /\ fs_files = {}
    /\ output_path = <<>>
    /\ calls = 0
    /\ compile_calls = <<>>
    /\ run_outcome = "none"
    /\ pc = "classify"

Classify ==
    /\ pc = "classify"
    /\ country_tag' = map_country_to_tag(country)
    /\ pc' = "classified"
    /\ UNCHANGED <<config, tags, resolverVars, substVars, batchVars, args,
                   config_status, country, base_output_file, fs_dirs, fs_files,
                   output_path, calls, compile_calls, run_outcome>>

NextClassify == Classify

SpecClassify == InitClassify /\ [][NextClassify]_vars

\* the aliases of the documented table, by tag
UkAliases ==
    {<<"u", "k">>,
     <<"u", "n", "i", "t", "e", "d", " ", "k", "i", "n", "g", "d", "o", "m">>,
     <<"b", "r", "i", "t", "a", "i", "n">>,
     <<"g", "r", "e", "a", "t", " ", "b", "r", "i", "t", "a", "i", "n">>,
     <<"e", "n", "g", "l", "a", "n", "d">>,
     <<"s", "c", "o", "t", "l", "a", "n", "d">>,
     <<"w", "a", "l", "e", "s">>,
     <<"n", "o", "r", "t", "h", "e", "r", "n", " ", "i", "r", "e", "l", "a", "n", "d">>}

UsaAliases ==
    {<<"u", "s", "a">>,
     <<"u", "n", "i", "t", "e", "d", " ", "s", "t", "a", "t", "e", "s">>,
     <<"u", "s">>,
     <<"a", "m", "e", "r", "i", "c", "a">>}

Switzerland == <<"s", "w", "i", "t", "z", "e", "r", "l", "a", "n", "d">>

Spain == <<"s", "p", "a", "i", "n">>

Classified(l) ==
    IF l \in UkAliases THEN <<"u", "k">>
    ELSE IF l \in UsaAliases THEN <<"u", "s", "a">>
    ELSE IF l = Switzerland THEN Switzerland
    ELSE IF l = Spain THEN Spain
    ELSE IF l \in european_countries THEN Europe
    ELSE Default

\* C13: map_country_to_tag returns, for every input string, the alias
\* table's tag when the lower-cased input is an alias, else "europe" when it
\* is in the European set, else "default"; the call always returns, and the
\* letter case of the input does not change the result.
C13_ClassificationIsTotal ==
    pc = "classified" =>
        /\ country_tag = Classified(Lower(country))
        /\ country_tag \in {<<"u", "k">>, <<"u", "s", "a">>, Switzerland,
                            Spain, Europe, Default}

C13_Witness ==
    /\ pc = "classified"
    /\ country = <<"E", "N", "G", "L", "A", "N", "D">>
    /\ country_tag = <<"u", "k">>

----------------------------------------------------------------------------
(* pathlib: a path is the sequence of its segments, each a str *)

\* str.rfind("."), 1-based; 0 when there is no dot
RFindDot(name) ==
    IF \E i \in 1..Len(name) : name[i] = "."
    THEN CHOOSE i \in 1..Len(name) :
            /\ name[i] = "."
            /\ \A j \in (i + 1)..Len(name) : name[j] # "."
    ELSE 0

\* PurePath.suffix: from the last dot on, unless that dot leads or ends the name
Suffix(name) ==
    LET i == RFindDot(name)
    IN IF 1 < i /\ i < Len(name) THEN SubSeq(name, i, Len(name)) ELSE <<>>

\* PurePath.stem
Stem(name) ==
    LET i == RFindDot(name)
    IN IF 1 < i /\ i < Len(name) THEN SubSeq(name, 1, i - 1) ELSE name

\* PurePath.name
Name(path) == path[Len(path)]

\* PurePath.parent
Parent(path) == SubSeq(path, 1, Len(path) - 1)

\* PurePath.with_stem / with_suffix on the last segment
WithStem(path, stem) == Append(Parent(path), stem \o Suffix(Name(path)))

WithSuffix(path, suffix) == Append(Parent(path), Stem(Name(path)) \o suffix)

\* sep.join(items)
RECURSIVE Join(_, _)
Join(sep, items) ==
    IF items = <<>> THEN <<>>
    ELSE IF Len(items) = 1 THEN items[1]
    ELSE items[1] \o sep \o Join(sep, Tail(items))

\* a path and all its ancestors
Chain(path) == {SubSeq(path, 1, k) : k \in 1..Len(path)}

\* Path.mkdir(parents=True) on a disk where each file lies in a directory:
\* a regular file on the chain makes os.mkdir raise before anything is made
MkdirExistNotOk(path, dirs, files) ==
    IF Chain(path) \cap files # {} \/ path \in dirs
    THEN [ok |-> FALSE, dirs |-> dirs]
    ELSE [ok |-> TRUE, dirs |-> dirs \cup Chain(path)]

Mkdir(path, dirs, files) ==
    IF Chain(path) \cap files # {}
    THEN [ok |-> FALSE, dirs |-> dirs]
    ELSE [ok |-> TRUE, dirs |-> dirs \cup Chain(path)]

----------------------------------------------------------------------------
(* ResumeSubstituter.create_folder_structure *)

MaxFolderTags == 3

MaxCalls == 2

country_tags ==
    {<<"u", "k">>, <<"u", "s", "a">>,
     <<"s", "w", "i", "t", "z", "e", "r", "l", "a", "n", "d">>,
     <<"e", "u", "r", "o", "p", "e">>, <<"s", "p", "a", "i", "n">>}

position_tags ==
    {<<"e", "n", "g", "i", "n", "e", "e", "r">>,
     <<"r", "e", "s", "e", "a", "r", "c", "h", "e", "r">>,
     <<"d", "a", "t", "a", "_", "s", "c", "i", "e", "n", "t", "i", "s", "t">>,
     <<"d", "e", "v", "e", "l", "o", "p", "e", "r">>,
     <<"s", "o", "f", "t", "w", "a", "r", "e", "_", "e", "n", "g", "i", "n", "e", "e", "r">>,
     <<"s", "o", "f", "t", "w", "a", "r", "e", "_", "d", "e", "v", "e", "l", "o", "p", "e", "r">>}

None == <<>>

\* the loop over tags: `country` after it (None when no tag is a country tag)
RECURSIVE ScanCountry(_, _)
ScanCountry(ts, found) ==
    IF ts = <<>> THEN found
    ELSE IF Head(ts) \in country_tags
         THEN ScanCountry(Tail(ts), Head(ts))
         ELSE ScanCountry(Tail(ts), found)

\* the loop over tags: `other_tags` after it
RECURSIVE OtherTagsWithPositions(_)
OtherTagsWithPositions(ts) ==
    IF ts = <<>> THEN <<>>
    ELSE IF Head(ts) \in country_tags
         THEN OtherTagsWithPositions(Tail(ts))
         ELSE <<Head(ts)>> \o OtherTagsWithPositions(Tail(ts))

RECURSIVE OtherTags(_)
OtherTags(ts) ==
    IF ts = <<>> THEN <<>>
    ELSE IF Head(ts) \in country_tags \/ Head(ts) \in position_tags
         THEN OtherTags(Tail(ts))
         ELSE <<Head(ts)>> \o OtherTags(Tail(ts))

Base == <<"_", "b", "a", "s", "e">>

Position == <<"P", "o", "s", "i", "t", "i", "o", "n">>

\* folder_path of create_folder_structure
FolderPath(ts, country_original) ==
    LET scanned == ScanCountry(ts, None)
        country_ == IF scanned = None THEN Default ELSE scanned
        other_tags == OtherTags(ts)
        folder_name == IF other_tags # <<>>
                       THEN Base \o <<"_">> \o Join(<<"_">>, other_tags)
                       ELSE Base
        folder_country == IF country_original # <<>> THEN country_original
                          ELSE country_
    IN <<folder_country, folder_name, Position>>

\* the value create_folder_structure returns when mkdir succeeds
FolderOutput(ts, base, country_original) ==
    Append(FolderPath(ts, country_original),
           Stem(Name(base)) \o Suffix(Name(base)))

FolderTagUniverse ==
    {<<"u", "k">>, <<"u", "s", "a">>,
     <<"e", "n", "g", "i", "n", "e", "e", "r">>, <<"a">>, <<"b">>}

OriginalCountries == {<<>>, <<"U", "S", "A">>}

BaseOutputFiles ==
    {<<<<"r", "e", "s", "u", "m", "e", ".", "t", "e", "x">>>>,
     <<<<"o", "u", "t">>, <<"c", "v", "_", "a", ".", "t", "e", "x">>>>,
     <<<<".", "c", "v">>>>}

\* a directory and a file the call has nothing to do with
OtherDir == <<<<"o", "t", "h", "e", "r">>>>

OtherFile == <<<<"o", "t", "h", "e", "r">>, <<"k", "e", "e", "p">>>>

\* the first k directories of the chain of path
FirstOfChain(path, k) == {SubSeq(path, 1, j) : j \in 1..k}

FoldersIdle ==
    /\ ResolverIdle
    /\ SubstIdle
    /\ BatchIdle
    /\ args = NoArgs
    /\ config_status = "ok"
    /\ country_tag = <<>>
    /\ compile_calls = <<>>
    /\ run_outcome = "none"

\* the disk before the call: part or all of the chain may exist already, and
\* a regular file may sit where the next directory is to be made
InitFolders ==
    /\ FoldersIdle
    /\ tags \in SeqsUpTo(FolderTagUniverse, MaxFolderTags)
    /\ country \in OriginalCountries
    /\ base_output_file \in BaseOutputFiles
    /\ \E k \in 0..3, blocked \in BOOLEAN :
         LET path == FolderPath(tags, country)
         IN /\ fs_dirs = FirstOfChain(path, k) \cup {OtherDir}
            /\ fs_files = IF blocked /\ k < 3
                          THEN {OtherFile, SubSeq(path, 1, k + 1)}
                          ELSE {OtherFile}
    /\ output_path = <<>>
    /\ calls = 0
    /\ pc = "folders"

CreateFolderStructure ==
    /\ pc = "folders"
    /\ calls < MaxCalls
    /\ LET made == Mkdir(FolderPath(tags, country), fs_dirs, fs_files)
       IN /\ fs_dirs' = made.dirs
          /\ IF made.ok
             THEN /\ output_path' = FolderOutput(tags, base_output_file, country)
                  /\ calls' = calls + 1
                  /\ pc' = "folders"
             ELSE \* FileExistsError / NotADirectoryError leave the function
                  /\ pc' = "OSError"
                  /\ UNCHANGED <<output_path, calls>>
    /\ UNCHANGED <<config, tags, resolverVars, substVars, batchVars, args,
                   config_status, country, country_tag, base_output_file,
                   fs_files, compile_calls, run_outcome>>

NextFolders == CreateFolderStructure

SpecFolders == InitFolders /\ [][NextFolders]_vars

----------------------------------------------------------------------------
(* Claims about create_folder_structure *)

IsOtherTag(t) == t \notin country_tags /\ t \notin position_tags

CountryTagsOf(ts) == {ts[i] : i \in {j \in 1..Len(ts) : ts[j] \in country_tags}}

C15_FirstCountryTagWins ==
    (/\ pc = "folders"
     /\ calls >= 1
     /\ country = <<>>
     /\ Cardinality({i \in 1..Len(tags) : tags[i] \in country_tags}) > 1)
        => LET first == CHOOSE i \in 1..Len(tags) :
                           /\ tags[i] \in country_tags
                           /\ \A j \in 1..(i - 1) : tags[j] \notin country_tags
           IN output_path[1] = tags[first]

\* C18: a call made while no regular file lies on the chain returns, and
\* afterwards the chain C / F / Position of the returned path exists; nothing
\* that existed is removed, only directories of the chain are added, the
\* files are untouched; a repeated call changes nothing on disk and returns
\* the same path.
C18_MkdirIsIdempotent ==
    [][(/\ pc = "folders"
        /\ Chain(FolderPath(tags, country)) \cap fs_files = {})
          => /\ pc' = "folders"
             /\ calls' = calls + 1
             /\ Chain(Parent(output_path')) \subseteq fs_dirs'
             /\ Len(Parent(output_path')) = 3
             /\ fs_dirs \subseteq fs_dirs'
             /\ fs_dirs' \ fs_dirs \subseteq Chain(Parent(output_path'))
             /\ fs_files' = fs_files
             /\ calls >= 1 => /\ output_path' = output_path
                              /\ fs_dirs' = fs_dirs]_vars

C18_Witness ==
    /\ calls = 2
    /\ pc = "folders"
    /\ country = <<>>
    /\ tags = <<<<"u", "k">>, <<"a">>>>
    /\ fs_dirs = {OtherDir, <<<<"u", "k">>>>,
                  <<<<"u", "k">>, <<"_", "b", "a", "s", "e", "_", "a">>>>,
                  <<<<"u", "k">>, <<"_", "b", "a", "s", "e", "_", "a">>,
                    <<"P", "o", "s", "i", "t", "i", "o", "n">>>>}
    /\ fs_files = {OtherFile}

----------------------------------------------------------------------------
(* compile_latex_to_pdf.  The file it is given is output_file at            *)
(* output_path; fs_files holds the other files of the disk.                 *)

Ext(s) == <<".">> \o s

AuxExtensionsWithTex ==
    <<Ext(<<"a", "u", "x">>), Ext(<<"l", "o", "g">>), Ext(<<"o", "u", "t">>),
      Ext(<<"t", "e", "x">>), Ext(<<"t", "o", "c">>),
      Ext(<<"f", "d", "b", "_", "l", "a", "t", "e", "x", "m", "k">>),
      Ext(<<"f", "l", "s">>)>>

aux_extensions ==
    <<Ext(<<"a", "u", "x">>), Ext(<<"l", "o", "g">>), Ext(<<"o", "u", "t">>),
      Ext(<<"t", "o", "c">>),
      Ext(<<"f", "d", "b", "_", "l", "a", "t", "e", "x", "m", "k">>),
      Ext(<<"f", "l", "s">>)>>

Pdf == Ext(<<"p", "d", "f">>)

\* how subprocess.run can end: a return code of 0 or not, TimeoutExpired,
\* FileNotFoundError (no pdflatex), any other exception
RunOutcomes == {"exit0", "nonzero", "timeout", "no_pdflatex", "error"}

\* the files pdflatex may leave behind, whatever its outcome
CompilerOutputs == {Pdf, Ext(<<"a", "u", "x">>), Ext(<<"l", "o", "g">>)}

SucceededIgnoringPdf(outcome, pdf_exists) == outcome = "exit0"

\* result.returncode == 0 and pdf_file.exists()
Succeeded(outcome, pdf_exists) == outcome = "exit0" /\ pdf_exists

\* the loop over aux_extensions: Path.exists() holds for a directory too, and
\* unlink() of a directory raises, which ends the loop (except Exception)
RECURSIVE CleanUp(_, _, _, _, _)
CleanUp(exts, tex, tex_exists, files, dirs) ==
    IF exts = <<>> THEN [files |-> files, tex_exists |-> tex_exists]
    ELSE LET aux_file == WithSuffix(tex, Head(exts))
         IN IF aux_file \in dirs
            THEN [files |-> files, tex_exists |-> tex_exists]
            ELSE IF aux_file = tex
            THEN CleanUp(Tail(exts), tex, FALSE, files, dirs)
            ELSE CleanUp(Tail(exts), tex, tex_exists, files \ {aux_file}, dirs)

TexPaths ==
    {<<<<"c", "v", ".", "t", "e", "x">>>>,
     <<<<"o", "u", "t">>, <<"c", "v">>>>,
     <<<<"a", ".", "b", ".", "t", "e", "x">>>>}

TexText == <<"x">>

\* siblings that may lie next to the file before the call
SiblingExtensions ==
    {Pdf, Ext(<<"a", "u", "x">>), Ext(<<"l", "o", "g">>), Ext(<<"f", "l", "s">>)}

Siblings(tex, exts) == {WithSuffix(tex, e) : e \in exts}

CompileIdle ==
    /\ ResolverIdle
    /\ tags = <<>>
    /\ input_status = "ok"
    /\ output_writable = TRUE
    /\ template = <<>>
    /\ content = <<>>
    /\ todo = {}
    /\ substitution_count = 0
    /\ resolved = {}
    /\ BatchIdle
    /\ args = NoArgs
    /\ config_status = "ok"
    /\ country = <<>>
    /\ country_tag = <<>>
    /\ base_output_file = <<>>
    /\ calls = 0

InitCompile ==
    /\ CompileIdle
    /\ output_path \in TexPaths
    /\ output_file \in {File(TexText), NoFile}
    /\ \E exts \in SUBSET SiblingExtensions, out_is_dir \in BOOLEAN :
         /\ fs_files = Siblings(output_path, exts) \cup {OtherFile}
         /\ fs_dirs = Chain(Parent(output_path)) \cup {OtherDir}
                \cup IF out_is_dir
                     THEN {WithSuffix(output_path, Ext(<<"o", "u", "t">>))}
                     ELSE {}
    /\ compile_calls = <<>>
    /\ run_outcome = "none"
    /\ pc = "compile"

\* one call compile_latex_to_pdf(output_path)
Compile ==
    /\ pc = "compile"
    /\ compile_calls' = Append(compile_calls, output_path)
    /\ pc' = "returned"
    /\ IF ~output_file.exists
       THEN \* "LaTeX file not found": return
            UNCHANGED <<run_outcome, fs_files, output_file>>
       ELSE \E outcome \in RunOutcomes, produced \in SUBSET CompilerOutputs :
              /\ outcome = "no_pdflatex" => produced = {}
              /\ run_outcome' = outcome
              /\ LET after_run == fs_files \cup
                                    (Siblings(output_path, produced) \ fs_dirs)
                     pdf_file == WithSuffix(output_path, Pdf)
                     pdf_exists == pdf_file \in after_run \cup fs_dirs
                     cleaned == CleanUp(aux_extensions, output_path, TRUE,
                                        after_run, fs_dirs)
                 IN IF Succeeded(outcome, pdf_exists)
                    THEN /\ fs_files' = cleaned.files
                         /\ output_file' = IF cleaned.tex_exists
                                           THEN output_file ELSE NoFile
                    ELSE /\ fs_files' = after_run
                         /\ UNCHANGED output_file
    /\ UNCHANGED <<config, tags, resolverVars, envVars, content, todo,
                   substitution_count, resolved, batchVars, args,
                   config_status, country, country_tag, base_output_file,
                   fs_dirs, output_path, calls>>

NextCompile == Compile

SpecCompile == InitCompile /\ [][NextCompile]_vars

----------------------------------------------------------------------------
(* Claims about compile_latex_to_pdf *)

AuxSiblings ==
    {WithSuffix(output_path, Ext(e)) :
        e \in {<<"a", "u", "x">>, <<"l", "o", "g">>, <<"o", "u", "t">>,
               <<"t", "o", "c">>,
               <<"f", "d", "b", "_", "l", "a", "t", "e", "x", "m", "k">>,
               <<"f", "l", "s">>}}

\* C19: whatever the outcome of the compiler run (exit 0 with or without a
\* PDF, non-zero exit, timeout, no executable, any other error), the call
\* returns, and the text file it was given still exists with the same content.
C19_CompileNeverFatal ==
    [][(pc = "compile" /\ output_file.exists)
          => /\ pc' = "returned"
             /\ run_outcome' \in RunOutcomes
             /\ output_file' = output_file]_vars

C19_Witness ==
    /\ pc = "returned"
    /\ run_outcome = "timeout"
    /\ output_file = File(TexText)
    /\ compile_calls = <<output_path>>

\* C20: when no auxiliary sibling is a directory, the call removes the
\* auxiliary siblings (.aux .log .out .toc .fdb_latexmk .fls) exactly when the
\* compiler exited with 0 and the sibling .pdf exists, and then removes
\* nothing else; on every other outcome nothing is removed.  Siblings that
\* do not exist are passed over.
C20_AuxCleanupOnlyOnSuccess ==
    [][(/\ pc = "compile"
        /\ output_file.exists
        /\ AuxSiblings \cap fs_dirs = {})
          => IF /\ run_outcome' = "exit0"
                /\ WithSuffix(output_path, Ext(<<"p", "d", "f">>)) \in fs_files'
             THEN /\ fs_files' \cap AuxSiblings = {}
                  /\ fs_files \ AuxSiblings \subseteq fs_files'
             ELSE fs_files \subseteq fs_files']_vars

C20_Witness ==
    /\ pc = "returned"
    /\ run_outcome = "exit0"
    /\ output_path = <<<<"c", "v", ".", "t", "e", "x">>>>
    /\ fs_files = {OtherFile, <<<<"c", "v", ".", "p", "d", "f">>>>}
    /\ fs_dirs = {OtherDir}

----------------------------------------------------------------------------
(* process_resume_substitution, the single-shot tool.  An argument that is  *)
(* None is the empty str / the empty path: the code tests truthiness only.  *)

\* ResumeSubstituter(args.config): _load_config returns or calls sys.exit(1)
LoadConfigSwallows(status) == "loaded"

load_config(status) == IF status = "ok" THEN "loaded" ELSE "SystemExit"

\* list_available_tags: iterating an entry that is a number, a boolean or
\* null raises TypeError
list_available_tags(cfg) ==
    IF \E id \in DOMAIN cfg : cfg[id].t \in {"int", "bool", "null"}
    THEN "TypeError" ELSE "returned"

Whitespace == {" ", "\t", "\n"}

\* str.strip()
RECURSIVE Strip(_)
Strip(s) ==
    IF s = <<>> THEN s
    ELSE IF Head(s) \in Whitespace THEN Strip(Tail(s))
    ELSE IF s[Len(s)] \in Whitespace THEN Strip(SubSeq(s, 1, Len(s) - 1))
    ELSE s

\* str.split(","): the pieces between the commas, empty ones included
RECURSIVE Split(_)
Split(s) ==
    IF \A i \in 1..Len(s) : s[i] # "," THEN <<s>>
    ELSE LET i == CHOOSE k \in 1..Len(s) :
                     s[k] = "," /\ \A j \in 1..(k - 1) : s[j] # ","
         IN <<SubSeq(s, 1, i - 1)>> \o Split(SubSeq(s, i + 1, Len(s)))

NotEmpty(s) == s # <<>>

\* [tag.strip() for tag in args.tags.split(",") if tag.strip()] if args.tags else []
ParseTags(s) ==
    IF s = <<>> THEN <<>>
    ELSE LET pieces == Split(s)
         IN SelectSeq([i \in 1..Len(pieces) |-> Strip(pieces[i])], NotEmpty)

\* tags.append(country_tag) instead of tags.insert(0, country_tag)
AppendCountry(country_tag_, ts) == Append(ts, country_tag_)

\* tags.insert(0, country_tag)
InsertCountry(country_tag_, ts) == <<country_tag_>> \o ts

\* the tag list after the country argument is handled
EffectiveTags(tags_arg, country_arg) ==
    LET parsed == ParseTags(tags_arg)
    IN IF country_arg # <<>> /\ map_country_to_tag(country_arg) # Default
       THEN InsertCountry(map_country_to_tag(country_arg), parsed)
       ELSE parsed

\* folder mode whenever the two switches say so
FolderModeIgnoringTags(ts, use_folders, no_folders) ==
    use_folders /\ ~no_folders

\* `tags and use_folders`, with use_folders = args.use_folders and not args.no_folders
FolderMode(ts, use_folders, no_folders) ==
    ts # <<>> /\ use_folders /\ ~no_folders

\* base_output of the folder branch
BaseOutput(input, ts) ==
    WithStem(input, Stem(Name(input)) \o <<"_">> \o Join(<<"_">>, ts))

\* the flat branch without its "_default" case
FlatOutputNoDefault(input, ts) ==
    WithStem(input, Stem(Name(input)) \o <<"_">> \o Join(<<"_">>, ts))

\* output_file of the flat branch
FlatOutput(input, ts) ==
    WithStem(input, Stem(Name(input)) \o
                    (IF ts # <<>> THEN <<"_">> \o Join(<<"_">>, ts)
                     ELSE <<"_">> \o Default))

ExitStatus(at) ==
    CASE at = "returned" -> 0
      [] at \in {"SystemExit", "OSError", "TypeError"} -> 1
      [] OTHER -> -1

Terminated == ExitStatus(pc) >= 0

TagArgs ==
    {<<>>, <<"a">>, <<" ", "a", " ", ",", ",", " ", ",", "b">>,
     <<"u", "s", "a", ",", "a">>}

CountryArgs == {<<>>, <<"U", "K">>, <<"M", "a", "r", "s">>}

InputArgs ==
    {<<<<"r", "e", "s", "u", "m", "e", ".", "t", "e", "x">>>>,
     <<<<"i", "n">>, <<"c", "v", ".", "t", "e", "x">>>>}

OutputArgs == {<<>>, <<<<"o", "u", "t">>, <<"m", "y", ".", "t", "e", "x">>>>}

ProcTemplates == {<<"x">>, <<"<", "1", ">", "-", "<", "a", ">">>}

ProcConfigs ==
    {OneKey(<<"1">>, JMap((<<"u", "k">> :> JStr(<<"U">>))
                          @@ (<<"a">> :> JStr(<<"A">>))
                          @@ (Default :> JStr(<<"D">>)))),
     OneKey(<<"1">>, JNum(5))}

InitProcess ==
    /\ args \in [tags : TagArgs, output : OutputArgs, input : InputArgs,
                 list_tags : BOOLEAN, use_folders : BOOLEAN,
                 no_folders : BOOLEAN, compile : BOOLEAN]
    /\ country \in CountryArgs
    /\ config_status \in {"ok", "missing", "invalid_json"}
    /\ config \in IF config_status = "ok" THEN ProcConfigs ELSE {EmptyMap}
    /\ input_status \in {"ok", "missing", "not_utf8", "unreadable"}
    /\ output_writable \in BOOLEAN
    /\ template \in IF input_status = "ok" THEN ProcTemplates ELSE {<<>>}
    /\ fs_dirs = {OtherDir}
    /\ fs_files \in {{OtherFile}, {OtherFile, <<<<"U", "K">>>>}}
    /\ tags = <<>>
    /\ placeholder_id = <<>>
    /\ result = NoResult
    /\ content = <<>>
    /\ todo = {}
    /\ substitution_count = 0
    /\ resolved = {}
    /\ output_file = NoFile
    /\ BatchIdle
    /\ country_tag = <<>>
    /\ base_output_file = <<>>
    /\ output_path = <<>>
    /\ calls = 0
    /\ compile_calls = <<>>
    /\ run_outcome = "none"
    /\ pc = "process"

\* the constructor and the list-tags branch
ProcLoad ==
    /\ pc = "process"
    /\ pc' = IF load_config(config_status) = "SystemExit" THEN "SystemExit"
             ELSE IF args.list_tags THEN list_available_tags(config)
             ELSE "plan"
    /\ UNCHANGED <<config, tags, resolverVars, substVars, batchVars, toolVars>>

\* the tag list, the country tag and the output path; in the folder branch
\* the call of create_folder_structure, which makes the directories
ProcPlan ==
    /\ pc = "plan"
    /\ LET ts == EffectiveTags(args.tags, country)
       IN /\ tags' = ts
          /\ country_tag' = IF country # <<>> THEN map_country_to_tag(country)
                            ELSE country_tag
          /\ IF args.output # <<>>
             THEN /\ output_path' = args.output
                  /\ pc' = "start"
                  /\ UNCHANGED <<base_output_file, fs_dirs, calls>>
             ELSE IF FolderMode(ts, args.use_folders, args.no_folders)
             THEN LET made == Mkdir(FolderPath(ts, country), fs_dirs, fs_files)
                  IN /\ base_output_file' = BaseOutput(args.input, ts)
                     /\ fs_dirs' = made.dirs
                     /\ IF made.ok
                        THEN /\ output_path' =
                                  FolderOutput(ts, BaseOutput(args.input, ts), country)
                             /\ calls' = calls + 1
                             /\ pc' = "start"
                        ELSE /\ pc' = "OSError"
                             /\ UNCHANGED <<output_path, calls>>
             ELSE /\ output_path' = FlatOutput(args.input, ts)
                  /\ pc' = "start"
                  /\ UNCHANGED <<base_output_file, fs_dirs, calls>>
    /\ UNCHANGED <<config, resolverVars, substVars, batchVars, args,
                   config_status, country, fs_files, compile_calls, run_outcome>>

\* substitute_file has returned, and the compiler is called in any case
ProcAfterSubstitutionAlwaysCompiles ==
    /\ pc = "done"
    /\ pc' = "compile"
    /\ UNCHANGED <<config, tags, resolverVars, substVars, batchVars, toolVars>>

\* substitute_file has returned: `if args.compile:`
ProcAfterSubstitution ==
    /\ pc = "done"
    /\ pc' = IF args.compile THEN "compile" ELSE "returned"
    /\ UNCHANGED <<config, tags, resolverVars, substVars, batchVars, toolVars>>

NextProcess ==
    \/ ProcLoad
    \/ ProcPlan
    \/ SubstRead
    \/ SubstStep
    \/ SubstWrite
    \/ ProcAfterSubstitution
    \/ Compile

SpecProcess == InitProcess /\ [][NextProcess]_vars

----------------------------------------------------------------------------
(* Claims about process_resume_substitution *)

\* the run is past the computation of the tag list and the output path
Planned ==
    /\ config_status = "ok"
    /\ ~args.list_tags
    /\ pc \notin {"process", "plan"}

\* the classified country tag followed by the user's tags, or the user's tags
ExpectedTags ==
    IF country # <<>> /\ Classified(Lower(country)) # <<"d", "e", "f", "a", "u", "l", "t">>
    THEN <<Classified(Lower(country))>> \o ParseTags(args.tags)
    ELSE ParseTags(args.tags)

FolderSwitch == args.use_folders /\ ~args.no_folders

\* no regular file lies where create_folder_structure makes its directories
ChainIsFree == Chain(FolderPath(ExpectedTags, country)) \cap fs_files = {}

\* C11: a configuration that is missing or invalid ends the run with exit
\* status 1 in its first step, before the template is read, a directory is
\* made, an output is written or the compiler is called; a template that is
\* missing or not UTF-8, and an output that cannot be written, never let the
\* run return: it ends with exit status 1.
C11_FailuresAreFatal ==
    /\ [](/\ (config_status # "ok" /\ pc # "process") => pc = "SystemExit"
          /\ (/\ config_status = "ok"
              /\ ~args.list_tags
              /\ \/ input_status \in {"missing", "not_utf8"}
                 \/ input_status = "ok" /\ ~output_writable)
                => /\ pc \notin {"done", "compile", "returned"}
                   /\ Terminated => ExitStatus(pc) = 1
                   /\ output_file = NoFile)
    /\ [][config_status # "ok"
            => /\ pc' = "SystemExit"
               /\ ExitStatus(pc') = 1
               /\ UNCHANGED <<content, todo, resolved, substitution_count,
                              output_file, fs_dirs, fs_files, output_path,
                              calls, compile_calls, run_outcome>>]_vars

C11_Witness ==
    /\ pc = "SystemExit"
    /\ config_status = "ok"
    /\ input_status = "ok"
    /\ ~output_writable
    /\ content # <<>>
    /\ todo = {}
    /\ args.compile
    /\ compile_calls = <<>>

\* C12: with a country supplied, the tag list used is the classified country
\* tag followed by the user's tags in their order when the classification is
\* not "default", and the user's tags alone otherwise; every placeholder
\* whose mapping holds the country tag resolves to the value under that tag.
C12_CountryTagFirst ==
    (Planned /\ country # <<>>) =>
        /\ tags = ExpectedTags
        /\ country_tag = Classified(Lower(country))
        /\ \A r \in resolved :
             (/\ country_tag # <<"d", "e", "f", "a", "u", "l", "t">>
              /\ r.id \in DOMAIN config
              /\ config[r.id].t = "dict"
              /\ country_tag \in DOMAIN config[r.id].m)
                => r.value = PyStr(config[r.id].m[country_tag])

C12_Witness ==
    /\ pc = "returned"
    /\ country = <<"U", "K">>
    /\ tags = <<<<"u", "k">>, <<"a">>, <<"b">>>>
    /\ \E r \in resolved : r.id = <<"1">> /\ r.value = <<"U">>
    /\ output_file = File(<<"U", "-", "<", "a", ">">>)

\* C16 as stated: without explicit output path and with folder mode enabled,
\* the output path is the one create_folder_structure builds, for every
\* effective tag list, the empty one included.
C16_FolderModeForEveryTagList ==
    (Planned /\ args.output = <<>> /\ FolderSwitch /\ ChainIsFree) =>
        /\ calls = 1
        /\ Len(output_path) = 4
        /\ output_path[3] = <<"P", "o", "s", "i", "t", "i", "o", "n">>

\* C16 amended: without explicit output path and with folder mode enabled,
\* a non-empty effective tag list gives the path create_folder_structure
\* builds from the tags, input stem + "_" + joined tags + extension and the
\* country, and the output is written there; an empty effective tag list
\* gives the flat name input stem + "_default" + extension next to the input,
\* and create_folder_structure is not called.
C16_FolderModeWhenTagged ==
    (Planned /\ args.output = <<>> /\ FolderSwitch /\ ChainIsFree) =>
        LET name == args.input[Len(args.input)]
        IN IF tags # <<>>
           THEN /\ calls = 1
                /\ output_path =
                     FolderOutput(tags,
                                  <<Stem(name) \o <<"_">> \o Join(<<"_">>, tags)
                                       \o Suffix(name)>>,
                                  country)
                /\ Chain(Parent(output_path)) \subseteq fs_dirs
                /\ pc \in {"done", "compile", "returned"} =>
                      output_file.exists
           ELSE /\ calls = 0
                /\ output_path = Append(Parent(args.input),
                                        Stem(name) \o <<"_", "d", "e", "f", "a", "u", "l", "t">>
                                            \o Suffix(name))
                /\ fs_dirs = {OtherDir}

C16_Witness ==
    /\ pc = "returned"
    /\ FolderSwitch
    /\ output_path = <<<<"U", "K">>, <<"_", "b", "a", "s", "e", "_", "a">>,
                       <<"P", "o", "s", "i", "t", "i", "o", "n">>,
                       <<"r", "e", "s", "u", "m", "e", "_", "u", "k", "_", "a",
                         ".", "t", "e", "x">>>>
    /\ output_file.exists
    /\ calls = 1

\* C17: without explicit output path and with folder mode disabled, the
\* output path is the input's directory + input stem + "_" + the effective
\* tags (country tag first) joined by "_" + the input's extension, or input
\* stem + "_default" + extension for an empty effective tag list; the output
\* is written there and no directory is made.
C17_FlatNaming ==
    (Planned /\ args.output = <<>> /\ ~FolderSwitch) =>
        LET name == args.input[Len(args.input)]
            tail == IF ExpectedTags # <<>>
                    THEN <<"_">> \o Join(<<"_">>, ExpectedTags)
                    ELSE <<"_", "d", "e", "f", "a", "u", "l", "t">>
        IN /\ output_path = Append(Parent(args.input),
                                   Stem(name) \o tail \o Suffix(name))
           /\ calls = 0
           /\ fs_dirs = {OtherDir}
           /\ pc \in {"done", "compile", "returned"} => output_file.exists

C17_Witness ==
    /\ pc = "returned"
    /\ args.no_folders
    /\ country = <<"U", "K">>
    /\ output_path = <<<<"i", "n">>,
                       <<"c", "v", "_", "u", "k", "_", "a", ".", "t", "e", "x">>>>
    /\ output_file.exists
    /\ fs_dirs = {OtherDir}

----------------------------------------------------------------------------
(* generate_profiles.read_profiles_file *)

MaxLines == 3

\* [x.strip() for x in line.split(",") if x.strip()]
Items(line) ==
    LET pieces == Split(line)
    IN SelectSeq([i \in 1..Len(pieces) |-> Strip(pieces[i])], NotEmpty)

\* the loop over the lines after the country line, keeping the lines of
\* separators only as empty profiles
RECURSIVE ProfilesKeepingEmpty(_)
ProfilesKeepingEmpty(rest) ==
    IF rest = <<>> THEN <<>>
    ELSE IF Strip(Head(rest)) = <<>> THEN ProfilesKeepingEmpty(Tail(rest))
    ELSE <<Items(Head(rest))>> \o ProfilesKeepingEmpty(Tail(rest))

\* the loop over the lines after the country line: `profiles` after it
RECURSIVE ProfilesOf(_)
ProfilesOf(rest) ==
    IF rest = <<>> THEN <<>>
    ELSE IF Strip(Head(rest)) = <<>> THEN ProfilesOf(Tail(rest))
    ELSE IF Items(Head(rest)) # <<>>
         THEN <<Items(Head(rest))>> \o ProfilesOf(Tail(rest))
         ELSE ProfilesOf(Tail(rest))

Exits == [end |-> "SystemExit", countries |-> <<>>, profiles |-> <<>>]

\* read_profiles_file without the test of `countries`
ReadProfilesNoCountryCheck(file) ==
    IF file.status \in {"missing", "not_utf8"} THEN Exits
    ELSE IF file.status = "unreadable"
    THEN [end |-> "OSError", countries |-> <<>>, profiles |-> <<>>]
    ELSE LET lines == [i \in 1..Len(file.lines) |-> Strip(file.lines[i])]
             non_empty == {i \in 1..Len(lines) : Strip(lines[i]) # <<>>}
         IN IF lines = <<>> THEN Exits
            ELSE IF non_empty = {} THEN Exits
            ELSE LET first_country_line_num ==
                         CHOOSE i \in non_empty : \A k \in non_empty : i <= k
                     countries_ == Items(lines[first_country_line_num])
                     profiles_ == ProfilesOf(SubSeq(lines, first_country_line_num + 1,
                                                    Len(lines)))
                 IN IF profiles_ = <<>> THEN Exits
                    ELSE [end |-> "returned", countries |-> countries_,
                          profiles |-> profiles_]

\* what read_profiles_file returns, or how it ends the process
read_profiles_file(file) ==
    IF file.status \in {"missing", "not_utf8"} THEN Exits
    ELSE IF file.status = "unreadable"
    THEN [end |-> "OSError", countries |-> <<>>, profiles |-> <<>>]
    ELSE LET lines == [i \in 1..Len(file.lines) |-> Strip(file.lines[i])]
             non_empty == {i \in 1..Len(lines) : Strip(lines[i]) # <<>>}
         IN IF lines = <<>> THEN Exits
            ELSE IF non_empty = {} THEN Exits
            ELSE LET first_country_line_num ==
                         CHOOSE i \in non_empty : \A k \in non_empty : i <= k
                     countries_ == Items(lines[first_country_line_num])
                     profiles_ == ProfilesOf(SubSeq(lines, first_country_line_num + 1,
                                                    Len(lines)))
                 IN IF countries_ = <<>> THEN Exits
                    ELSE IF profiles_ = <<>> THEN Exits
                    ELSE [end |-> "returned", countries |-> countries_,
                          profiles |-> profiles_]

\* raw lines of a profiles file: blank, padded, separators only, items
LineUniverse ==
    {<<>>, <<" ">>, <<",", " ", ",">>, <<"U", "K">>,
     <<"U", "K", ",", " ", "M", "a", "r", "s">>,
     <<" ", "a", " ", ",", ",", "b">>, <<"a", "_", "b", " ">>}

ProfilesFiles ==
    {[status |-> "ok", lines |-> ls] : ls \in SeqsUpTo(LineUniverse, MaxLines)}
        \cup {[status |-> st, lines |-> <<>>] :
                 st \in {"missing", "not_utf8", "unreadable"}}

InitProfiles ==
    /\ ResolverIdle
    /\ tags = <<>>
    /\ SubstIdle
    /\ ToolIdle
    /\ profiles_file \in ProfilesFiles
    /\ countries = <<>>
    /\ profiles = <<>>
    /\ unit = <<1, 1>>
    /\ attempts = <<>>
    /\ success_count = 0
    /\ main_args = NoMainArgs
    /\ pc = "read"

ReadProfilesFile ==
    /\ pc = "read"
    /\ LET read == read_profiles_file(profiles_file)
       IN /\ pc' = read.end
          /\ countries' = read.countries
          /\ profiles' = read.profiles
    /\ UNCHANGED <<config, tags, resolverVars, substVars, unit, attempts,
                   success_count, main_args, profiles_file, toolVars>>

NextProfiles == ReadProfilesFile

SpecProfiles == InitProfiles /\ [][NextProfiles]_vars

----------------------------------------------------------------------------
(* Claims about read_profiles_file *)

\* the lines of the file, trimmed
Trimmed == [i \in 1..Len(profiles_file.lines) |-> Strip(profiles_file.lines[i])]

NonBlank == {i \in 1..Len(Trimmed) : Trimmed[i] # <<>>}

CountryLine == CHOOSE i \in NonBlank : \A k \in NonBlank : i <= k

HasItems(line) == Items(line) # <<>>

\* C22: when read_profiles_file returns, the countries are the trimmed
\* non-empty items of the first non-empty line, and the profiles are the item
\* lists of the later lines that have an item, in file order; blank lines and
\* lines of separators only add nothing and the lines after them still count.
C22_ProfilesFileParse ==
    pc = "returned" =>
        /\ NonBlank # {}
        /\ countries = Items(Trimmed[CountryLine])
        /\ LET later == SelectSeq(SubSeq(Trimmed, CountryLine + 1, Len(Trimmed)),
                                  HasItems)
           IN profiles = [i \in 1..Len(later) |-> Items(later[i])]
        /\ \A i \in 1..Len(countries) :
              /\ countries[i] # <<>>
              /\ countries[i] = Strip(countries[i])
              /\ \A k \in 1..Len(countries[i]) : countries[i][k] # ","

C22_Witness ==
    /\ pc = "returned"
    /\ profiles_file.lines = <<<<"U", "K", ",", " ", "M", "a", "r", "s">>,
                               <<",", " ", ",">>,
                               <<" ", "a", " ", ",", ",", "b">>>>
    /\ countries = <<<<"U", "K">>, <<"M", "a", "r", "s">>>>
    /\ profiles = <<<<<<"a">>, <<"b">>>>>>

\* C23: read_profiles_file returns exactly when the file was read, its first
\* non-empty line holds a country and a later line holds a tag; what it
\* returns then has a country, a profile, and in each profile a non-empty
\* tag.  In every other case the process ends with exit status 1.
C23_ProfilesFileIsValidated ==
    pc # "read" =>
        LET readable == profiles_file.status = "ok"
            has_country == NonBlank # {} /\ HasItems(Trimmed[CountryLine])
            has_profile == /\ NonBlank # {}
                           /\ \E i \in (CountryLine + 1)..Len(Trimmed) :
                                 HasItems(Trimmed[i])
        IN IF readable /\ has_country /\ has_profile
           THEN /\ pc = "returned"
                /\ countries # <<>>
                /\ profiles # <<>>
                /\ \A i \in 1..Len(profiles) :
                      /\ profiles[i] # <<>>
                      /\ \A k \in 1..Len(profiles[i]) : profiles[i][k] # <<>>
           ELSE /\ ExitStatus(pc) = 1
                /\ profiles_file.status \in {"missing", "not_utf8"}
                      => pc = "SystemExit"
                /\ profiles_file.status = "ok" => pc = "SystemExit"

C23_Witness ==
    /\ pc = "SystemExit"
    /\ profiles_file.status = "ok"
    /\ profiles_file.lines = <<<<>>, <<",", " ", ",">>, <<"a", "_", "b", " ">>>>

----------------------------------------------------------------------------
(* generate_profiles.main after read_profiles_file has returned: the dry    *)
(* run, the existence checks and the two loops, one generate_resume call    *)
(* per step.  The unit is process_resume_substitution as modelled above.    *)

CountryUniverse == {<<"U", "K">>, <<"M", "a", "r", "s">>}

ProfileUniverse ==
    {<<<<"a">>>>, <<<<"a">>, <<"b">>>>, <<<<"a", "_", "b">>>>}

\* the configuration file as the run finds it, and as another program may
\* leave it while the run goes on
BatchConfig ==
    OneKey(<<"1">>, JMap((<<"a">> :> JStr(<<"A">>)) @@ (Default :> JStr(<<"D">>))))

RewrittenConfig == OneKey(<<"1">>, JNum(5))

\* Namespace(...) of generate_resume
UnitArgs(country_, profile, compile_pdf) ==
    [tags |-> Join(<<",">>, profile), output |-> <<>>,
     input |-> <<<<"r", "e", "s", "u", "m", "e", ".", "t", "e", "x">>>>,
     list_tags |-> FALSE, use_folders |-> TRUE, no_folders |-> FALSE,
     compile |-> compile_pdf]

\* how substitute_file ends, from the files and the configuration
SubstituteFileEnd(cfg, ts, text, in_status, writable) ==
    CASE in_status \in {"missing", "not_utf8"} -> "SystemExit"
      [] in_status = "unreadable" -> "OSError"
      [] OTHER ->
           LET ids == SetOf(FindAll(text))
           IN IF ids = {} THEN IF writable THEN "done" ELSE "OSError"
              ELSE IF \E id \in ids :
                         get_value_for_placeholder(cfg, id, ts).kind = "TypeError"
              THEN "TypeError"
              ELSE IF writable THEN "done" ELSE "SystemExit"

\* the existence checks made before the dry run is looked at
MainStartChecksFirst ==
    /\ pc = "main"
    /\ pc' = IF config_status = "missing" \/ input_status = "missing"
             THEN "SystemExit"
             ELSE IF main_args.dry_run THEN "returned"
             ELSE "generating"
    /\ UNCHANGED <<config, tags, resolverVars, substVars, batchVars,
                   toolVars>>

\* the dry run and the two existence checks of main
MainStart ==
    /\ pc = "main"
    /\ pc' = IF main_args.dry_run THEN "returned"
             ELSE IF config_status = "missing" \/ input_status = "missing"
             THEN "SystemExit"
             ELSE "generating"
    /\ UNCHANGED <<config, tags, resolverVars, substVars, batchVars,
                   toolVars>>

\* one iteration of the inner loop of main: one generate_resume call
GenerateResume ==
    /\ pc = "generating"
    /\ LET i       == unit[1]
           j       == unit[2]
           a       == UnitArgs(countries[i], profiles[j], main_args.compile)
           load    == load_config(config_status)
           ts      == EffectiveTags(a.tags, countries[i])
           folder  == FolderMode(ts, a.use_folders, a.no_folders)
           made    == Mkdir(FolderPath(ts, countries[i]), fs_dirs, fs_files)
           path    == IF folder
                      THEN FolderOutput(ts, BaseOutput(a.input, ts), countries[i])
                      ELSE FlatOutput(a.input, ts)
           subst   == IF folder /\ ~made.ok THEN "OSError"
                      ELSE SubstituteFileEnd(config, ts, template, input_status,
                                             output_writable)
           end     == process_resume_substitution(load, subst)
           outcome == generate_resume(end)
       IN /\ args' = a
          /\ country' = countries[i]
          /\ tags' = IF load = "loaded" THEN ts ELSE tags
          /\ output_path' = IF load = "loaded" /\ end # "OSError" THEN path
                            ELSE output_path
          /\ fs_dirs' = IF load = "loaded" /\ folder THEN made.dirs ELSE fs_dirs
          /\ fs_files' = IF end = "done" THEN fs_files \cup {path} ELSE fs_files
          /\ compile_calls' = IF end = "done" /\ a.compile
                              THEN Append(compile_calls, path) ELSE compile_calls
          /\ attempts' = Append(attempts, [country |-> countries[i],
                                           profile |-> profiles[j],
                                           outcome |-> outcome,
                                           load    |-> load,
                                           config  |-> config,
                                           path    |-> path])
          /\ IF outcome = "SystemExit"
             THEN /\ pc' = "SystemExit"
                  /\ UNCHANGED <<unit, success_count>>
             ELSE /\ success_count' = success_count + 1
                  /\ IF j < Len(profiles) THEN /\ unit' = <<i, j + 1>>
                                               /\ pc' = "generating"
                     ELSE IF i < Len(countries) THEN /\ unit' = <<i + 1, 1>>
                                                     /\ pc' = "generating"
                     ELSE /\ unit' = unit
                          /\ pc' = "returned"
    /\ UNCHANGED <<config, resolverVars, substVars, countries, profiles,
                   main_args, profiles_file, config_status, country_tag,
                   base_output_file, calls, run_outcome>>

\* another program rewrites the configuration file between two units
ConfigFileRewritten ==
    /\ pc = "generating"
    /\ config = BatchConfig
    /\ config' = RewrittenConfig
    /\ UNCHANGED <<tags, resolverVars, substVars, batchVars, toolVars, pc>>

InitBatch ==
    /\ config = BatchConfig
    /\ tags = <<>>
    /\ placeholder_id = <<>>
    /\ result = NoResult
    /\ input_status \in {"ok", "missing", "not_utf8"}
    /\ output_writable \in BOOLEAN
    /\ template = IF input_status = "ok" THEN <<"<", "1", ">">> ELSE <<>>
    /\ content = <<>>
    /\ todo = {}
    /\ substitution_count = 0
    /\ resolved = {}
    /\ output_file = NoFile
    /\ countries \in SeqsUpTo(CountryUniverse, MaxCountries) \ {<<>>}
    /\ profiles \in SeqsUpTo(ProfileUniverse, MaxProfiles) \ {<<>>}
    /\ unit = <<1, 1>>
    /\ attempts = <<>>
    /\ success_count = 0
    /\ main_args \in [dry_run : BOOLEAN, compile : BOOLEAN]
    /\ profiles_file = NoProfilesFile
    /\ args = NoArgs
    /\ config_status \in {"ok", "missing", "invalid_json"}
    /\ country = <<>>
    /\ country_tag = <<>>
    /\ base_output_file = <<>>
    /\ fs_dirs = {}
    /\ fs_files = {}
    /\ output_path = <<>>
    /\ calls = 0
    /\ compile_calls = <<>>
    /\ run_outcome = "none"
    /\ pc = "main"

NextBatch == MainStart \/ GenerateResume \/ ConfigFileRewritten

SpecBatch == InitBatch /\ [][NextBatch]_vars

----------------------------------------------------------------------------
(* Claims about generate_profiles.main *)

\* main is over: it returned or the process was ended
MainOver == pc \in {"returned", "SystemExit"}

\* the (country, profile) pairs, countries outermost, both in file order
UnitsInOrder ==
    [k \in 1..(Len(countries) * Len(profiles)) |->
        <<countries[((k - 1) \div Len(profiles)) + 1],
          profiles[((k - 1) % Len(profiles)) + 1]>>]

\* C21: without dry run and with the configuration and the input file on
\* disk, the generate_resume calls made are, at every moment, the first units
\* of the product taken countries outermost in file order, and when main is
\* over each unit has been called exactly once.
C21_OneCallPerUnit ==
    (/\ ~main_args.dry_run
     /\ config_status # "missing"
     /\ input_status # "missing")
        => /\ Len(attempts) <= Len(UnitsInOrder)
           /\ \A k \in 1..Len(attempts) :
                 <<attempts[k].country, attempts[k].profile>> = UnitsInOrder[k]
           /\ MainOver => /\ pc = "returned"
                          /\ Len(attempts) = Len(UnitsInOrder)

\* C24: with --dry-run main makes no generate_resume call, writes no file,
\* makes no directory, calls no compiler and returns, whether the
\* configuration and the input file exist or not.
C24_DryRunTouchesNothing ==
    main_args.dry_run =>
        /\ pc \in {"main", "returned"}
        /\ attempts = <<>>
        /\ success_count = 0
        /\ fs_files = {}
        /\ fs_dirs = {}
        /\ compile_calls = <<>>

C24_Witness ==
    /\ main_args.dry_run
    /\ pc = "returned"
    /\ config_status = "missing"
    /\ input_status = "missing"
    /\ Len(countries) = 2
    /\ attempts = <<>>

\* C27: in a run the configuration file is loaded at most once and all units
\* work with the same configuration contents.
C27_ConfigLoadedOnce ==
    /\ Cardinality({k \in 1..Len(attempts) : attempts[k].load = "loaded"}) <= 1
    /\ \A k \in 1..Len(attempts), l \in 1..Len(attempts) :
          attempts[k].config = attempts[l].config

\* no element occurs twice in the sequence
Distinct(seq) == \A k \in 1..Len(seq), l \in 1..Len(seq) : seq[k] = seq[l] => k = l

\* C28: with pairwise distinct countries and pairwise distinct profiles, no
\* two units that wrote their output wrote it to the same path.
C28_NoOutputOverwritten ==
    (Distinct(countries) /\ Distinct(profiles)) =>
        \A k \in 1..Len(attempts), l \in 1..Len(attempts) :
           (/\ k # l
            /\ attempts[k].outcome = "success"
            /\ attempts[l].outcome = "success")
              => attempts[k].path # attempts[l].path

----------------------------------------------------------------------------
(* Claims about the failures and the compiler call of                       *)
(* process_resume_substitution                                              *)

\* C29: a run that ends because the template cannot be read leaves the disk
\* as it found it: no output file and no directory has been made.
C29_ReadFailureLeavesNoTrace ==
    (/\ Planned
     /\ input_status # "ok"
     /\ Terminated)
        => /\ output_file = NoFile
           /\ fs_dirs = {OtherDir}

\* C30: the compiler is called at most once, only with args.compile set, only
\* from a run whose configuration loaded, whose template was read and whose
\* output was written, never in list-tags mode; the call is made when the
\* output file exists with the substituted text, and its argument is the
\* path of that file.
C30_CompilerCalledOnceAfterWrite ==
    /\ [](/\ Len(compile_calls) <= 1
          /\ compile_calls # <<>> =>
                /\ args.compile
                /\ ~args.list_tags
                /\ config_status = "ok"
                /\ input_status = "ok"
                /\ output_writable
                /\ compile_calls = <<output_path>>
                /\ pc = "returned")
    /\ [][compile_calls' # compile_calls
            => /\ compile_calls = <<>>
               /\ compile_calls' = <<output_path>>
               /\ args.compile
               /\ output_file = File(content)]_vars

C30_Witness ==
    /\ pc = "returned"
    /\ args.compile
    /\ compile_calls = <<output_path>>
    /\ output_path = <<<<"o", "u", "t">>, <<"m", "y", ".", "t", "e", "x">>>>
    /\ run_outcome = "nonzero"
    /\ output_file = File(<<"U", "-", "<", "a", ">">>)

----------------------------------------------------------------------------
(* The loop of substitute_file as a function of the iteration order *)

RECURSIVE RunOrder(_, _, _)
\* the loop body applied to the identifiers in the given order, starting from
\* text and count: [text, count] after the last one
RunOrder(text, count, order) ==
    IF order = <<>> THEN [text |-> text, count |-> count]
    ELSE LET id          == Head(order)
             replacement == get_value_for_placeholder(config, id, tags).val
             pattern     == Marker(id)
             occurrences == CountOccurrences(text, pattern)
         IN RunOrder(Replace(text, pattern, replacement),
                     count + occurrences, Tail(order))

\* the orders in which iterating the set ids can yield its elements
IterationOrders(ids) ==
    {q \in [1..Cardinality(ids) -> ids] :
        \A i, j \in 1..Cardinality(ids) : q[i] = q[j] => i = j}

RECURSIVE OccurrencesIn(_, _)
\* how often the markers of the identifiers ids occur in text
OccurrencesIn(text, ids) ==
    IF ids = {} THEN 0
    ELSE LET id == CHOOSE id \in ids : TRUE
         IN NumPositions(text, Marker(id)) + OccurrencesIn(text, ids \ {id})

\* C25: the text written and the substitution count are the same for every
\* order in which the distinct identifiers of the template are processed: a
\* finished run agrees with the loop run in each iteration order.
C25_OrderIndependent ==
    pc = "done" =>
        \A order \in IterationOrders(SetOf(FindAll(template))) :
            /\ output_file = File(RunOrder(template, 0, order).text)
            /\ substitution_count = RunOrder(template, 0, order).count

\* C26: the substitution count of a finished run is the number of placeholder
\* occurrences in the template as read, summed over its distinct identifiers.
C26_CountIsOccurrencesInTemplate ==
    pc = "done" =>
        substitution_count = OccurrencesIn(template, SetOf(FindAll(template)))

====
